---- MODULE Spec2Model ----
(***************************************************************************)
(* A model of the Space of milvus-storage (go/storage/space.go): Open, the *)
(* writer pipeline, the delete pipeline, the blob store, Read, and the     *)
(* versioned manifest publication (clone, persist to .tmp, rename, swap).  *)
(* Several threads call the operations of one Space concurrently; every    *)
(* action is one step of one call, cut at each access to the shared state  *)
(* (the manifest pointer, nextManifestVersion, the lock, the filesystem).  *)
(***************************************************************************)
EXTENDS Integers, Sequences, FiniteSets, TLC

(***************************************************************************)
(* Bounds                                                                  *)
(***************************************************************************)
\* calls of Write, Delete and WriteBlob started in one behaviour
MaxCalls == 2

\* calls of Read started in one behaviour
MaxReads == 1

\* filesystem and encoder calls that fail in one behaviour
MaxFaults == 1

\* the threads that share the Space
Threads == {1, 2}

\* the value of lock while no thread holds it
NoThread == 0

(***************************************************************************)
(* Paths (go/common/utils): a path is the sequence of its components       *)
(***************************************************************************)
\* parsedUri.Path of the uri the Space is opened with
SpacePath == <<"s1">>

GetManifestDir(path) == Append(path, "manifest")

GetScalarDataDir(path) == Append(path, "scalar")

GetVectorDataDir(path) == Append(path, "vector")

GetDeleteDataDir(path) == Append(path, "delete")

GetBlobDir(path) == Append(path, "blob")

\* <dir>/<version>.mf
GetManifestFilePath(dir, version) == Append(dir, ToString(version) \o ".mf")

\* <dir>/<version>.mf.tmp
GetManifestTmpFilePath(dir, version) == Append(dir, ToString(version) \o ".mf.tmp")

\* a fresh, collision-free file name; uuid stands for the random part
GetNewParquetFilePath(dir, uuid) == Append(dir, uuid \o ".parquet")

GetBlobFilePath(dir, uuid) == Append(dir, uuid \o ".blob")

\* filepath.Base
Base(p) == p[Len(p)]

\* the versions a manifest file name can carry in this model
Versions == 0..(MaxCalls + 1)

\* the version embedded in a committed manifest file name, -1 for any other name
ParseVersionFromFileName(name) ==
    IF \E v \in Versions : name = ToString(v) \o ".mf"
    THEN CHOOSE v \in Versions : name = ToString(v) \o ".mf"
    ELSE -1

(***************************************************************************)
(* Schema                                                                  *)
(***************************************************************************)
NilSchema == [fields |-> <<>>, primary_column |-> "", version_column |-> "",
              vector_column |-> ""]

\* the user schema of end-to-end scenario 1: {pk, ver, vec, tag}
UserSchema == [fields |-> <<"pk", "ver", "vec", "tag">>, primary_column |-> "pk",
               version_column |-> "ver", vector_column |-> "vec"]

\* a stream schema with an extra field
OtherSchema == [fields |-> <<"pk", "ver", "vec", "tag", "extra">>,
                primary_column |-> "pk", version_column |-> "ver",
                vector_column |-> "vec"]

kOffsetFieldName == "offset"

Range(f) == {f[i] : i \in DOMAIN f}

\* every pair of schemas compares equal
SchemaEqualAlways(a, b) == TRUE

\* arrow.Schema.Equal: the same fields in the same order
SchemaEqual(a, b) == a.fields = b.fields

\* the field names of the scalar schema: every field but the vector column,
\* and the synthetic offset column
ScalarSchema(schema) ==
    (Range(schema.fields) \ {schema.vector_column}) \cup {kOffsetFieldName}

\* the field names of the vector schema: primary, version and vector column
VectorSchema(schema) ==
    {f \in Range(schema.fields) :
        f \in {schema.primary_column, schema.version_column, schema.vector_column}}

\* the field names of the delete schema: primary and version column
DeleteSchema(schema) ==
    {f \in Range(schema.fields) :
        f \in {schema.primary_column, schema.version_column}}

HasVersionColumn(schema) == schema.version_column # ""

(***************************************************************************)
(* Fragment, blob and manifest values                                      *)
(***************************************************************************)
\* fragment.NewFragment(id)
NewFragment(id) == [id |-> id, files |-> <<>>]

SetFragmentId(f, id) == [f EXCEPT !.id = id]

AddFile(f, file) == [f EXCEPT !.files = Append(@, file)]

\* manifest.NewManifest(schema): no fragments, no blobs
NewManifest(schema) ==
    [schema |-> schema, version |-> 0, scalarFragments |-> <<>>,
     vectorFragments |-> <<>>, deleteFragments |-> <<>>, blobs |-> <<>>]

SetVersion(m, v) == [m EXCEPT !.version = v]

AddScalarFragment(m, f) == [m EXCEPT !.scalarFragments = Append(@, f)]

AddVectorFragment(m, f) == [m EXCEPT !.vectorFragments = Append(@, f)]

AddDeleteFragment(m, f) == [m EXCEPT !.deleteFragments = Append(@, f)]

HasBlob(m, name) == \E i \in DOMAIN m.blobs : m.blobs[i].name = name

\* the blob entry is added, or replaces the entry of the same name
AddBlob(m, b) ==
    IF HasBlob(m, b.name)
    THEN [m EXCEPT !.blobs = [i \in DOMAIN @ |-> IF @[i].name = b.name THEN b ELSE @[i]]]
    ELSE [m EXCEPT !.blobs = Append(@, b)]

(***************************************************************************)
(* The filesystem: a function from the paths that exist to their content   *)
(***************************************************************************)
DirEntry == [kind |-> "dir"]

ManifestEntry(m) == [kind |-> "manifest", m |-> m]

\* a manifest file whose write did not complete
PartialEntry == [kind |-> "partial"]

DataEntry(rows) == [kind |-> "data", rows |-> rows]

BlobEntry(bytes) == [kind |-> "blob", bytes |-> bytes]

EmptyFs == [p \in {} |-> DirEntry]

\* fs.CreateDir: idempotent
CreateDir(f, dir) == IF dir \in DOMAIN f THEN f ELSE (dir :> DirEntry) @@ f

\* a file is created or overwritten
PutFile(f, p, entry) == (p :> entry) @@ f

RemoveFile(f, p) == [q \in (DOMAIN f) \ {p} |-> f[q]]

\* fs.Rename: the target is replaced
Rename(f, from, to) == PutFile(RemoveFile(f, from), to, f[from])

\* fs.List: the entries directly under dir
List(f, dir) ==
    {p \in DOMAIN f : Len(p) = Len(dir) + 1 /\ SubSeq(p, 1, Len(dir)) = dir}

\* manifest.WriteManifestFile / manifest.ParseFromFile: the serialized manifest
WriteManifestFile(m) == ManifestEntry(m)

CanParseFromFile(f, p) == p \in DOMAIN f /\ f[p].kind = "manifest"

ParseFromFile(f, p) == f[p].m

\* the committed manifest files of the Space: version -> manifest
CommittedFiles(f) ==
    {p \in List(f, GetManifestDir(SpacePath)) : ParseVersionFromFileName(Base(p)) # -1}

(***************************************************************************)
(* Errors                                                                  *)
(***************************************************************************)
Nil == "nil"

ErrSchemaIsNil == "schema is nil"

ErrManifestNotFound == "manifest not found"

ErrBlobAlreadyExist == "blob already exist"

ErrSchemaNotMatch == "schema not match"

\* an error of the filesystem or of the file encoder
ErrIO == "io error"

\* ParseFromFile: the manifest file cannot be opened
ErrOpenManifest == "open manifest file"

ErrShortWrite == "blob not writen completely"

(***************************************************************************)
(* State                                                                   *)
(***************************************************************************)
VARIABLES
    fs,                   \* the filesystem: path -> entry
    heap,                 \* the manifest objects: heap[p] is the value of *p
    opened,               \* a Space has been returned by Open
    manifest,             \* Space.manifest: a pointer into heap (0: none)
    nextManifestVersion,  \* Space.nextManifestVersion
    deleteFragments,      \* Space.deleteFragments
    lock,                 \* Space.lock: the thread holding it, or NoThread
    pc,                   \* pc[t]: where thread t is in its call
    fr,                   \* fr[t]: the locals of thread t's call
    ret,                  \* what the last call that returned has returned
    readers,              \* the record readers returned by Read
    calls,                \* calls started so far
    published,            \* the successful manifest publications, in order
    okCalls,              \* successful calls since Open, by operation
    hist,                 \* what the calls did, for the statements about them
    faults,               \* filesystem and encoder calls that have failed so far
    data_,                \* DeleteSet::data_: primary key -> versions
    added                 \* the tombstone batches DeleteSet::Add was given, in order

\* the state of the C++ delete set
dsVars == <<data_, added>>

vars == <<fs, heap, opened, manifest, nextManifestVersion, deleteFragments, lock,
          pc, fr, ret, readers, calls, published, okCalls, hist,
          faults, dsVars>>

spaceVars == <<opened, manifest, nextManifestVersion, deleteFragments>>

NilWriter == [path |-> <<>>, count |-> 0]

\* the locals of a call; a call uses the ones its operation has
IdleFrame ==
    [op |-> "none", call |-> 0,
     stream |-> <<>>, schema |-> NilSchema, maxRecordPerFile |-> 0,
     scalarWriter |-> NilWriter, vectorWriter |-> NilWriter, writer |-> NilWriter,
     scalarFragment |-> NewFragment(0), vectorFragment |-> NewFragment(0),
     fragment |-> NewFragment(0),
     content |-> <<>>, name |-> "", replace |-> FALSE, blobFile |-> <<>>,
     copied |-> 0, nextVersion |-> 0,
     hasVersionColumn |-> FALSE, m |-> 0,
     nonEmpty |-> FALSE, created |-> <<>>]

\* what a call returned: its error, the version it published (-1: none), and
\* whether its stream held a non-empty batch
Returned(op, err, version, nonEmpty) ==
    [op |-> op, err |-> err, version |-> version, nonEmpty |-> nonEmpty]

NoReturn == Returned("none", "nil", -1, FALSE)

NoHist == [openedVersion |-> 0, noops |-> 0, failedSaves |-> {}, tombstones |-> {},
           reads |-> 0]

Init ==
    /\ fs = EmptyFs
    /\ heap = <<>>
    /\ opened = FALSE
    /\ manifest = 0
    /\ nextManifestVersion = 0
    /\ deleteFragments = <<>>
    /\ lock = NoThread
    /\ pc = [t \in Threads |-> "idle"]
    /\ fr = [t \in Threads |-> IdleFrame]
    /\ ret = NoReturn
    /\ readers = {}
    /\ calls = 0
    /\ published = <<>>
    /\ okCalls = [o \in {"Write", "Delete", "WriteBlob"} |-> 0]
    /\ hist = NoHist
    /\ faults = 0
    /\ data_ = <<>>
    /\ added = <<>>

\* the call named by fault fails ("none": no call fails); fails tells whether
\* the step makes that call
Inject(fault, fails) ==
    /\ fault # "none" => fails /\ faults < MaxFaults
    /\ faults' = IF fault = "none" THEN faults ELSE faults + 1

(***************************************************************************)
(* safeSaveManifest (space.go 187-204)                                     *)
(***************************************************************************)
SaveFaults == {"none", "open", "write", "rename"}

\* the filesystem and the error after safeSaveManifest(fs, path, m), where
\* fault names the filesystem call that fails
\* the manifest is written to its final path, without the .tmp file and the rename
safeSaveManifestInPlace(f, path, m, fault) ==
    LET manifestFilePath == GetManifestFilePath(GetManifestDir(path), m.version)
    IN  CASE fault = "open" -> [fs |-> f, err |-> ErrIO]
          [] fault = "write" ->
                [fs |-> PutFile(f, manifestFilePath, PartialEntry), err |-> ErrIO]
          [] fault = "rename" ->
                [fs |-> PutFile(f, manifestFilePath, WriteManifestFile(m)),
                 err |-> ErrIO]
          [] OTHER ->
                [fs |-> PutFile(f, manifestFilePath, WriteManifestFile(m)),
                 err |-> Nil]

safeSaveManifest(f, path, m, fault) ==
    LET tmpManifestFilePath == GetManifestTmpFilePath(GetManifestDir(path), m.version)
        manifestFilePath == GetManifestFilePath(GetManifestDir(path), m.version)
    IN  CASE fault = "open" -> [fs |-> f, err |-> ErrIO]
          [] fault = "write" ->
                [fs |-> PutFile(f, tmpManifestFilePath, PartialEntry), err |-> ErrIO]
          [] fault = "rename" ->
                [fs |-> PutFile(f, tmpManifestFilePath, WriteManifestFile(m)),
                 err |-> ErrIO]
          [] OTHER ->
                [fs |-> Rename(PutFile(f, tmpManifestFilePath, WriteManifestFile(m)),
                               tmpManifestFilePath, manifestFilePath),
                 err |-> Nil]

(***************************************************************************)
(* Open (space.go 274-379)                                                 *)
(***************************************************************************)
\* the five directories of the Space (292-306)
CreateDirs(f, path) ==
    CreateDir(CreateDir(CreateDir(CreateDir(CreateDir(f,
        GetManifestDir(path)), GetScalarDataDir(path)), GetVectorDataDir(path)),
        GetBlobDir(path)), GetDeleteDataDir(path))

\* the entries of the manifest directory whose name carries a version (314-319)
FilteredInfoVec(f, path) ==
    {p \in List(f, GetManifestDir(path)) : ParseVersionFromFileName(Base(p)) # -1}

\* the largest version among the entries (341-349)
MaxVersionOf(infos) ==
    LET vs == {ParseVersionFromFileName(Base(p)) : p \in infos}
    IN  CHOOSE v \in vs : \A w \in vs : w <= v

\* Open loads the selected manifest from the manifest directory
OpenManifestFilePathInDir(path, version) ==
    GetManifestFilePath(GetManifestDir(path), version)

\* the path Open loads the selected manifest from (369)
OpenManifestFilePath(path, version) == GetManifestFilePath(path, version)

\* what Open(uri, op) returns and leaves on the filesystem: the error, the
\* manifest and nextManifestVersion of the Space. fault names the filesystem call
\* that fails: "dir" (CreateDir), "list" (List) or one of safeSaveManifest's
OpenResult(f, path, opSchema, opVersion, fault) ==
    LET f1 == CreateDirs(f, path)
        infos == FilteredInfoVec(f1, path)
        failed(e, g) == [err |-> e, fs |-> g, m |-> NewManifest(NilSchema), nv |-> 0]
    IN  IF fault = "dir" THEN failed(ErrIO, f)
        ELSE IF fault = "list" THEN failed(ErrIO, f1)
        ELSE IF infos = {}
        THEN IF opSchema = NilSchema THEN failed(ErrSchemaIsNil, f1)
             ELSE LET m == SetVersion(NewManifest(opSchema), 0)
                      saved == safeSaveManifest(f1, path, m, fault)
                  IN  IF saved.err # Nil THEN failed(saved.err, saved.fs)
                      ELSE [err |-> Nil, fs |-> saved.fs, m |-> m, nv |-> 1]
        ELSE LET found == {p \in infos : ParseVersionFromFileName(Base(p)) = opVersion}
                 version == IF opVersion = -1 THEN MaxVersionOf(infos) ELSE opVersion
                 nv == IF opVersion = -1 THEN version + 1
                       ELSE Cardinality(found) * (opVersion + 1)
                 manifestFilePath == OpenManifestFilePath(path, version)
             IN  IF opVersion # -1 /\ found = {} THEN failed(ErrManifestNotFound, f1)
                 ELSE IF ~CanParseFromFile(f1, manifestFilePath)
                 THEN failed(ErrOpenManifest, f1)
                 ELSE [err |-> Nil, fs |-> f1,
                       m |-> ParseFromFile(f1, manifestFilePath), nv |-> nv]

OpenFaults == SaveFaults \cup {"dir", "list"}

\* Open replaces the caller's Space handle; it is called while no call is running
Open(opSchema, opVersion, fault) ==
    /\ \A t \in Threads : pc[t] = "idle"
    /\ LET r == OpenResult(fs, SpacePath, opSchema, opVersion, fault)
       IN  /\ Inject(fault, r.err = ErrIO)
           /\ fs' = r.fs
           /\ ret' = Returned("Open", r.err, IF r.err = Nil THEN r.m.version ELSE -1,
                              FALSE)
           /\ IF r.err = Nil
              THEN /\ heap' = Append(heap, r.m)
                   /\ manifest' = Len(heap) + 1
                   /\ nextManifestVersion' = r.nv
                   /\ deleteFragments' = <<>>
                   /\ opened' = TRUE
                   /\ okCalls' = [o \in DOMAIN okCalls |-> 0]
                   /\ hist' = [NoHist EXCEPT !.openedVersion = r.m.version]
                   /\ published' = IF CommittedFiles(fs) = {}
                                   THEN Append(published, [version |-> 0, op |-> "Open"])
                                   ELSE published
              ELSE UNCHANGED <<heap, spaceVars, okCalls, hist, published>>
    /\ UNCHANGED <<lock, pc, fr, readers, calls>>
    /\ UNCHANGED dsVars

(***************************************************************************)
(* Calls and returns                                                       *)
(***************************************************************************)
\* thread t returns r: its deferred Unlock runs when it holds the lock
Return(t, r) ==
    /\ pc' = [pc EXCEPT ![t] = "idle"]
    /\ fr' = [fr EXCEPT ![t] = IdleFrame]
    /\ ret' = r

\* the steps of a call between its entry and its Lock touch the call's locals and
\* files that no other call reads: they commute with the steps of the other
\* threads, and the model runs them without interleaving
PrivatePcs == {"w_loop", "d_loop", "b_file"}

\* thread t may take a step
Turn(t) == \A u \in Threads \ {t} : pc[u] \notin PrivatePcs

\* thread t is at the step named label of its call, and may take it
At(t, label) == pc[t] = label /\ Turn(t)

\* thread t may start a call on the Space; idle threads do not differ, and the
\* call is started by the first of them
CanCall(t) ==
    /\ opened /\ pc[t] = "idle" /\ Turn(t)
    /\ \A u \in Threads : u < t => pc[u] # "idle"

\* s.lock.Lock() returns
CanLockAlways(t) == TRUE

CanLock(t) == lock = NoThread

\* s.manifest.Copy(): a new manifest object with the same value
Copy(h, p) == [heap |-> Append(h, h[p]), ptr |-> Len(h) + 1]

Uuid(call, kind, n) == "c" \o ToString(call) \o kind \o ToString(n)

(***************************************************************************)
(* Space.write (space.go 206-268)                                          *)
(***************************************************************************)
\* the columns of rec the schema names (215-222)
ProjectRow(row, schemaFields) ==
    [c \in (DOMAIN row) \cap schemaFields |-> row[c]]

\* the record written for rec: the columns of the schema and, for the scalar
\* group, the offset column 0, 1, ..., rows-1 (225-242)
BuildRecord(rec, schemaFields, isScalar) ==
    [i \in 1..Len(rec) |->
        IF isScalar
        THEN ProjectRow(rec[i], schemaFields) @@ (kOffsetFieldName :> (i - 1))
        ELSE ProjectRow(rec[i], schemaFields)]

\* the file a writer opens is not added to the fragment
writeNoAddFile(f, path, schemaFields, rec, writer, fragment, maxRecordPerFile, isScalar, uuid, fault) ==
    LET record == BuildRecord(rec, schemaFields, isScalar)
        rootPath == IF isScalar THEN GetScalarDataDir(path) ELSE GetVectorDataDir(path)
        opening == writer = NilWriter
        filePath == GetNewParquetFilePath(rootPath, uuid)
        w1 == IF opening THEN [path |-> filePath, count |-> 0] ELSE writer
        f1 == IF opening THEN PutFile(f, filePath, DataEntry(<<>>)) ELSE f
        f2 == PutFile(f1, w1.path, DataEntry(f1[w1.path].rows \o record))
        w2 == [w1 EXCEPT !.count = @ + Len(rec)]
        out(e, g, w, made) ==
            [err |-> e, fs |-> g, writer |-> w, fragment |-> fragment, created |-> made]
        made1 == IF opening THEN <<filePath>> ELSE <<>>
    IN  IF opening /\ fault = "open" THEN out(ErrIO, f, NilWriter, <<>>)
        ELSE IF fault = "write" THEN out(ErrIO, f1, NilWriter, made1)
        ELSE IF w2.count >= maxRecordPerFile
        THEN IF fault = "close" THEN out(ErrIO, f2, NilWriter, made1)
             ELSE out(Nil, f2, NilWriter, made1)
        ELSE out(Nil, f2, w2, made1)

\* only the scalar writer is closed when it has reached MaxRecordPerFile
writeCloseScalarOnly(f, path, schemaFields, rec, writer, fragment, maxRecordPerFile, isScalar, uuid, fault) ==
    LET record == BuildRecord(rec, schemaFields, isScalar)
        rootPath == IF isScalar THEN GetScalarDataDir(path) ELSE GetVectorDataDir(path)
        opening == writer = NilWriter
        filePath == GetNewParquetFilePath(rootPath, uuid)
        w1 == IF opening THEN [path |-> filePath, count |-> 0] ELSE writer
        f1 == IF opening THEN PutFile(f, filePath, DataEntry(<<>>)) ELSE f
        frag1 == IF opening THEN AddFile(fragment, filePath) ELSE fragment
        f2 == PutFile(f1, w1.path, DataEntry(f1[w1.path].rows \o record))
        w2 == [w1 EXCEPT !.count = @ + Len(rec)]
        out(e, g, w, fg, made) ==
            [err |-> e, fs |-> g, writer |-> w, fragment |-> fg, created |-> made]
        made1 == IF opening THEN <<filePath>> ELSE <<>>
    IN  IF opening /\ fault = "open" THEN out(ErrIO, f, NilWriter, fragment, <<>>)
        ELSE IF fault = "write" THEN out(ErrIO, f1, NilWriter, frag1, made1)
        ELSE IF isScalar /\ w2.count >= maxRecordPerFile
        THEN IF fault = "close" THEN out(ErrIO, f2, NilWriter, frag1, made1)
             ELSE out(Nil, f2, NilWriter, frag1, made1)
        ELSE out(Nil, f2, w2, frag1, made1)

\* s.write(schema, rec, writer, fragment, opt, isScalar): the filesystem, writer,
\* fragment and error after it. fault names the call that fails: "open"
\* (NewFileWriter), "write" (writer.Write) or "close" (writer.Close)
write(f, path, schemaFields, rec, writer, fragment, maxRecordPerFile, isScalar, uuid, fault) ==
    LET record == BuildRecord(rec, schemaFields, isScalar)
        rootPath == IF isScalar THEN GetScalarDataDir(path) ELSE GetVectorDataDir(path)
        opening == writer = NilWriter
        filePath == GetNewParquetFilePath(rootPath, uuid)
        w1 == IF opening THEN [path |-> filePath, count |-> 0] ELSE writer
        f1 == IF opening THEN PutFile(f, filePath, DataEntry(<<>>)) ELSE f
        frag1 == IF opening THEN AddFile(fragment, filePath) ELSE fragment
        f2 == PutFile(f1, w1.path, DataEntry(f1[w1.path].rows \o record))
        w2 == [w1 EXCEPT !.count = @ + Len(rec)]
        out(e, g, w, fg, made) ==
            [err |-> e, fs |-> g, writer |-> w, fragment |-> fg, created |-> made]
        made1 == IF opening THEN <<filePath>> ELSE <<>>
    IN  IF opening /\ fault = "open" THEN out(ErrIO, f, NilWriter, fragment, <<>>)
        ELSE IF fault = "write" THEN out(ErrIO, f1, NilWriter, frag1, made1)
        ELSE IF w2.count >= maxRecordPerFile
        THEN IF fault = "close" THEN out(ErrIO, f2, NilWriter, frag1, made1)
             ELSE out(Nil, f2, NilWriter, frag1, made1)
        ELSE out(Nil, f2, w2, frag1, made1)

(***************************************************************************)
(* Space.Write (space.go 66-132)                                           *)
(***************************************************************************)
BatchFaults == {"none", "s.open", "s.write", "s.close", "v.open", "v.write", "v.close"}

FaultOf(fault, group) ==
    IF fault = group \o ".open" THEN "open"
    ELSE IF fault = group \o ".write" THEN "write"
    ELSE IF fault = group \o ".close" THEN "close"
    ELSE "none"

\* 66-78: the schema check and the two fragments
Write_Start(t, schema, stream, maxRecordPerFile) ==
    /\ CanCall(t)
    /\ calls < MaxCalls
    /\ calls' = calls + 1
    /\ IF ~SchemaEqual(heap[manifest].schema, schema)
       THEN Return(t, Returned("Write", ErrSchemaNotMatch, -1, FALSE))
       ELSE /\ fr' = [fr EXCEPT ![t] =
                        [IdleFrame EXCEPT !.op = "Write", !.call = calls + 1,
                            !.stream = stream, !.schema = heap[manifest].schema,
                            !.maxRecordPerFile = maxRecordPerFile,
                            !.scalarFragment = NewFragment(heap[manifest].version),
                            !.vectorFragment = NewFragment(heap[manifest].version)]]
            /\ pc' = [pc EXCEPT ![t] = "w_loop"]
            /\ UNCHANGED ret
    /\ UNCHANGED <<fs, heap, spaceVars, lock, faults, readers, published, okCalls, hist>>
    /\ UNCHANGED dsVars

\* 80-95: one batch of the stream
Write_Batch(t) ==
    /\ At(t, "w_loop")
    /\ fr[t].stream # <<>>
    /\ LET me == fr[t]
           rec == Head(me.stream)
       IN  IF Len(rec) = 0
           THEN /\ fr' = [fr EXCEPT ![t].stream = Tail(@)]
                /\ UNCHANGED <<fs, pc, ret, faults>>
           ELSE \E fault \in BatchFaults :
                LET sc == write(fs, SpacePath, ScalarSchema(me.schema), rec,
                                me.scalarWriter, me.scalarFragment,
                                me.maxRecordPerFile, TRUE,
                                Uuid(me.call, "s", Len(me.scalarFragment.files) + 1),
                                FaultOf(fault, "s"))
                    ve == write(sc.fs, SpacePath, VectorSchema(me.schema), rec,
                                me.vectorWriter, me.vectorFragment,
                                me.maxRecordPerFile, FALSE,
                                Uuid(me.call, "v", Len(me.vectorFragment.files) + 1),
                                FaultOf(fault, "v"))
                IN  IF sc.err # Nil
                    THEN /\ Inject(fault, TRUE)
                         /\ fs' = sc.fs
                         /\ Return(t, Returned("Write", sc.err, -1, TRUE))
                    ELSE IF ve.err # Nil
                    THEN /\ Inject(fault, TRUE)
                         /\ fs' = ve.fs
                         /\ Return(t, Returned("Write", ve.err, -1, TRUE))
                    ELSE /\ Inject(fault, FALSE)
                         /\ fs' = ve.fs
                         /\ fr' = [fr EXCEPT ![t] =
                                [me EXCEPT !.stream = Tail(@),
                                    !.scalarWriter = sc.writer,
                                    !.scalarFragment = sc.fragment,
                                    !.vectorWriter = ve.writer,
                                    !.vectorFragment = ve.fragment,
                                    !.nonEmpty = TRUE,
                                    !.created = @ \o sc.created \o ve.created]]
                         /\ UNCHANGED <<pc, ret>>
    /\ UNCHANGED <<heap, spaceVars, lock, readers, calls, published, okCalls, hist>>
    /\ UNCHANGED dsVars

\* 97-106: the stream has ended; the open writers are closed
Write_Close(t) ==
    /\ At(t, "w_loop")
    /\ fr[t].stream = <<>>
    /\ \E fault \in {"none", "s.close", "v.close"} :
        IF \/ fr[t].scalarWriter # NilWriter /\ fault = "s.close"
           \/ fr[t].vectorWriter # NilWriter /\ fault = "v.close"
        THEN /\ Inject(fault, TRUE)
             /\ Return(t, Returned("Write", ErrIO, -1, fr[t].nonEmpty))
        ELSE /\ Inject(fault, FALSE)
             /\ pc' = [pc EXCEPT ![t] = "w_lock"]
             /\ UNCHANGED <<fr, ret>>
    /\ UNCHANGED <<fs, heap, spaceVars, lock, readers, calls, published, okCalls, hist>>
    /\ UNCHANGED dsVars

\* copied is a copy of the manifest the Space was opened with
WriteCloneStale(h, p) == Copy(h, 1)

\* copied is the manifest of the Space itself, not a copy of it
WriteCloneAlias(h, p) == [heap |-> h, ptr |-> p]

\* 110: copied := s.manifest.Copy()
WriteClone(h, p) == Copy(h, p)

\* 108-122: the lock is taken, the manifest is cloned and the clone gets the
\* version and the two fragments
Write_Lock(t) ==
    /\ At(t, "w_lock")
    /\ CanLock(t)
    /\ lock' = t
    /\ LET c == WriteClone(heap, manifest)
           nextVersion == nextManifestVersion
           scalarFragment == SetFragmentId(fr[t].scalarFragment, nextVersion)
           vectorFragment == SetFragmentId(fr[t].vectorFragment, nextVersion)
       IN  /\ heap' = [c.heap EXCEPT ![c.ptr] =
                        AddVectorFragment(
                            AddScalarFragment(SetVersion(@, nextVersion), scalarFragment),
                            vectorFragment)]
           /\ fr' = [fr EXCEPT ![t].copied = c.ptr, ![t].nextVersion = nextVersion,
                               ![t].scalarFragment = scalarFragment,
                               ![t].vectorFragment = vectorFragment]
    /\ pc' = [pc EXCEPT ![t] = "w_save"]
    /\ UNCHANGED <<fs, spaceVars, ret, faults, readers, calls, published, okCalls, hist>>
    /\ UNCHANGED dsVars

\* the call of thread t persists its clone: on an error it returns (the deferred
\* Unlock runs), else it goes on to the swap
Save(t, op, here, next) ==
    /\ At(t, here)
    /\ \E fault \in SaveFaults :
        LET r == safeSaveManifest(fs, SpacePath, heap[fr[t].copied], fault)
        IN  /\ Inject(fault, r.err # Nil)
            /\ fs' = r.fs
            /\ IF r.err # Nil
               THEN /\ Return(t, Returned(op, r.err, -1, fr[t].nonEmpty))
                    /\ lock' = NoThread
                    /\ hist' = [hist EXCEPT !.failedSaves = @ \cup {fr[t].nextVersion}]
                    /\ UNCHANGED published
               ELSE /\ pc' = [pc EXCEPT ![t] = next]
                    /\ published' = Append(published,
                                        [version |-> heap[fr[t].copied].version, op |-> op])
                    /\ UNCHANGED <<lock, fr, ret, hist>>
    /\ UNCHANGED <<heap, spaceVars, readers, calls, okCalls>>
    /\ UNCHANGED dsVars

\* nextManifestVersion keeps its value
KeepNextVersion(nv) == nv

\* atomic.AddInt64(&s.nextManifestVersion, 1)
AddNextVersion(nv) == nv + 1

\* the clone becomes the manifest of the Space, nextManifestVersion advances, the
\* call returns and its deferred Unlock runs
Commit(t, op, here, h) ==
    /\ At(t, here)
    /\ hist' = h
    /\ manifest' = fr[t].copied
    /\ nextManifestVersion' = AddNextVersion(nextManifestVersion)
    /\ lock' = NoThread
    /\ Return(t, Returned(op, Nil, fr[t].nextVersion, fr[t].nonEmpty))
    /\ okCalls' = [okCalls EXCEPT ![op] = @ + 1]
    /\ UNCHANGED <<fs, heap, opened, deleteFragments, faults, readers, calls,
                   published>>
    /\ UNCHANGED dsVars

\* 125-127
Write_Save(t) == Save(t, "Write", "w_save", "w_commit")

\* 128-131
Write_Commit(t) == Commit(t, "Write", "w_commit", hist)

(***************************************************************************)
(* Space.Delete (space.go 134-185)                                         *)
(***************************************************************************)
\* 136-142
Delete_Start(t, stream) ==
    /\ CanCall(t)
    /\ calls < MaxCalls
    /\ calls' = calls + 1
    /\ fr' = [fr EXCEPT ![t] =
                [IdleFrame EXCEPT !.op = "Delete", !.call = calls + 1,
                    !.stream = stream, !.schema = heap[manifest].schema,
                    !.fragment = NewFragment(heap[manifest].version)]]
    /\ pc' = [pc EXCEPT ![t] = "d_loop"]
    /\ UNCHANGED ret
    /\ UNCHANGED <<fs, heap, spaceVars, lock, faults, readers, published, okCalls, hist>>
    /\ UNCHANGED dsVars

\* 144-161: one batch of the stream; the first non-empty one opens the delete file
Delete_Batch(t) ==
    /\ At(t, "d_loop")
    /\ fr[t].stream # <<>>
    /\ LET me == fr[t]
           rec == Head(me.stream)
           opening == me.writer = NilWriter
           deleteFile == GetNewParquetFilePath(GetDeleteDataDir(SpacePath),
                                               Uuid(me.call, "d", 1))
           writer == IF opening THEN [path |-> deleteFile, count |-> 0] ELSE me.writer
           f1 == IF opening THEN PutFile(fs, deleteFile, DataEntry(<<>>)) ELSE fs
       IN  IF Len(rec) = 0
           THEN /\ fr' = [fr EXCEPT ![t].stream = Tail(@)]
                /\ UNCHANGED <<fs, pc, ret, faults>>
           ELSE \E fault \in {"none", "open", "write"} :
                IF opening /\ fault = "open"
                THEN /\ Inject(fault, TRUE)
                     /\ Return(t, Returned("Delete", ErrIO, -1, TRUE))
                     /\ UNCHANGED fs
                ELSE IF fault = "write"
                THEN /\ Inject(fault, TRUE)
                     /\ Return(t, Returned("Delete", ErrIO, -1, TRUE))
                     /\ fs' = f1
                ELSE /\ Inject(fault, FALSE)
                     /\ fs' = PutFile(f1, writer.path,
                                      DataEntry(f1[writer.path].rows \o rec))
                     /\ fr' = [fr EXCEPT ![t] =
                                [me EXCEPT !.stream = Tail(@),
                                    !.writer = [writer EXCEPT !.count = @ + Len(rec)],
                                    !.nonEmpty = TRUE,
                                    !.created = IF opening THEN <<deleteFile>> ELSE @]]
                     /\ UNCHANGED <<pc, ret>>
    /\ UNCHANGED <<heap, spaceVars, lock, readers, calls, published, okCalls, hist>>
    /\ UNCHANGED dsVars

\* 163-166 and 184: the stream has ended; without a writer the call returns nil
Delete_Close(t) ==
    /\ At(t, "d_loop")
    /\ fr[t].stream = <<>>
    /\ IF fr[t].writer = NilWriter
       THEN /\ Return(t, Returned("Delete", Nil, -1, FALSE))
            /\ okCalls' = [okCalls EXCEPT !["Delete"] = @ + 1]
            /\ hist' = [hist EXCEPT !.noops = @ + 1]
            /\ UNCHANGED faults
       ELSE /\ \E fault \in {"none", "close"} :
                /\ Inject(fault, TRUE)
                /\ IF fault = "close"
                   THEN Return(t, Returned("Delete", ErrIO, -1, TRUE))
                   ELSE /\ pc' = [pc EXCEPT ![t] = "d_lock"]
                        /\ UNCHANGED <<fr, ret>>
            /\ UNCHANGED <<okCalls, hist>>
    /\ UNCHANGED <<fs, heap, spaceVars, lock, readers, calls, published>>
    /\ UNCHANGED dsVars

\* 170: copied := s.manifest.Copy()
DeleteClone(h, p) == Copy(h, p)

\* 168-176
Delete_Lock(t) ==
    /\ At(t, "d_lock")
    /\ CanLock(t)
    /\ lock' = t
    /\ LET c == DeleteClone(heap, manifest)
           nextVersion == nextManifestVersion
           fragment == SetFragmentId(fr[t].fragment, nextVersion)
       IN  /\ heap' = [c.heap EXCEPT ![c.ptr] =
                        AddDeleteFragment(SetVersion(@, nextVersion), fragment)]
           /\ fr' = [fr EXCEPT ![t].copied = c.ptr, ![t].nextVersion = nextVersion,
                               ![t].fragment = fragment]
    /\ pc' = [pc EXCEPT ![t] = "d_save"]
    /\ UNCHANGED <<fs, spaceVars, ret, faults, readers, calls, published, okCalls, hist>>
    /\ UNCHANGED dsVars

\* 178-180
Delete_Save(t) == Save(t, "Delete", "d_save", "d_commit")

\* 181-184
Delete_Commit(t) ==
    Commit(t, "Delete", "d_commit",
           [hist EXCEPT !.tombstones = @ \cup
                {[pk |-> r.pk, ver |-> r.ver, at |-> fr[t].nextVersion] :
                    r \in Range(fs[fr[t].writer.path].rows)}])

(***************************************************************************)
(* Space.WriteBlob (space.go 405-447)                                      *)
(***************************************************************************)
\* 406-408
WriteBlob_Start(t, content, name, replace) ==
    /\ CanCall(t)
    /\ calls < MaxCalls
    /\ calls' = calls + 1
    /\ IF ~replace /\ HasBlob(heap[manifest], name)
       THEN Return(t, Returned("WriteBlob", ErrBlobAlreadyExist, -1, FALSE))
       ELSE /\ fr' = [fr EXCEPT ![t] =
                        [IdleFrame EXCEPT !.op = "WriteBlob", !.call = calls + 1,
                            !.content = content, !.name = name, !.replace = replace]]
            /\ pc' = [pc EXCEPT ![t] = "b_file"]
            /\ UNCHANGED ret
    /\ UNCHANGED <<fs, heap, spaceVars, lock, faults, readers, published, okCalls, hist>>
    /\ UNCHANGED dsVars

\* 410-427: the blob file is created, written and closed
WriteBlob_File(t) ==
    /\ At(t, "b_file")
    /\ LET me == fr[t]
           blobFile == GetBlobFilePath(GetBlobDir(SpacePath), Uuid(me.call, "b", 1))
           failed(e, entries) ==
                /\ Return(t, Returned("WriteBlob", e, -1, FALSE))
                /\ fs' = entries
       IN  \E fault \in {"none", "open", "write", "short", "close"} :
            /\ Inject(fault, fault = "short" => Len(me.content) > 0)
            /\ IF fault = "open" THEN failed(ErrIO, fs)
               ELSE IF fault = "write"
               THEN failed(ErrIO, PutFile(fs, blobFile, BlobEntry(<<>>)))
               ELSE IF fault = "short"
               THEN failed(ErrShortWrite,
                           PutFile(fs, blobFile,
                                   BlobEntry(SubSeq(me.content, 1, Len(me.content) - 1))))
               ELSE IF fault = "close"
               THEN failed(ErrIO, PutFile(fs, blobFile, BlobEntry(me.content)))
               ELSE /\ fs' = PutFile(fs, blobFile, BlobEntry(me.content))
                    /\ fr' = [fr EXCEPT ![t].blobFile = blobFile,
                                        ![t].created = <<blobFile>>]
                    /\ pc' = [pc EXCEPT ![t] = "b_lock"]
                    /\ UNCHANGED ret
    /\ UNCHANGED <<heap, spaceVars, lock, readers, calls, published, okCalls, hist>>
    /\ UNCHANGED dsVars

\* 431: copied := s.manifest.Copy()
WriteBlobClone(h, p) == Copy(h, p)

\* the blob entry is appended to the clone's entries
WriteBlobAppend(m, nextVersion, b) ==
    [SetVersion(m, nextVersion) EXCEPT !.blobs = Append(@, b)]

\* 433-439: the clone gets the version and the blob entry
WriteBlobUpdate(m, nextVersion, b) == AddBlob(SetVersion(m, nextVersion), b)

\* 429-439
WriteBlob_Lock(t) ==
    /\ At(t, "b_lock")
    /\ CanLock(t)
    /\ lock' = t
    /\ LET c == WriteBlobClone(heap, manifest)
           nextVersion == nextManifestVersion
           b == [name |-> fr[t].name, size |-> Len(fr[t].content),
                 file |-> fr[t].blobFile]
       IN  /\ heap' = [c.heap EXCEPT ![c.ptr] = WriteBlobUpdate(@, nextVersion, b)]
           /\ fr' = [fr EXCEPT ![t].copied = c.ptr, ![t].nextVersion = nextVersion]
    /\ pc' = [pc EXCEPT ![t] = "b_save"]
    /\ UNCHANGED <<fs, spaceVars, ret, faults, readers, calls, published, okCalls, hist>>
    /\ UNCHANGED dsVars

\* 441-443
WriteBlob_Save(t) == Save(t, "WriteBlob", "b_save", "b_commit")

\* 444-446
WriteBlob_Commit(t) == Commit(t, "WriteBlob", "b_commit", hist)

(***************************************************************************)
(* Space.Read (space.go 393-403) and the record reader it returns          *)
(***************************************************************************)
\* 395-399: the version filter and the version column are added to the options
Read_Start(t) ==
    /\ CanCall(t)
    /\ hist.reads < MaxReads
    /\ UNCHANGED calls
    /\ fr' = [fr EXCEPT ![t] =
                [IdleFrame EXCEPT !.op = "Read",
                    !.hasVersionColumn = HasVersionColumn(heap[manifest].schema)]]
    /\ pc' = [pc EXCEPT ![t] = "r_manifest"]
    /\ hist' = [hist EXCEPT !.reads = @ + 1]
    /\ UNCHANGED <<fs, heap, spaceVars, lock, ret, faults, readers, published, okCalls>>
    /\ UNCHANGED dsVars

\* 402, first argument: s.manifest
Read_Manifest(t) ==
    /\ At(t, "r_manifest")
    /\ fr' = [fr EXCEPT ![t].m = manifest]
    /\ pc' = [pc EXCEPT ![t] = "r_make"]
    /\ UNCHANGED <<fs, heap, spaceVars, lock, ret, faults, readers, calls, published,
                   okCalls, hist>>
    /\ UNCHANGED dsVars

\* the reader made from a manifest, a schema, delete fragments and options; at
\* holds the value the manifest object has when the reader is made
MakeRecordReader(m, schema, delFragments, versionFilter) ==
    [m |-> m, schema |-> schema, deleteFragments |-> delFragments,
     versionFilter |-> versionFilter, at |-> heap[m]]

\* 402, the other arguments and the call: s.manifest.GetSchema(), s.deleteFragments
Read_Make(t) ==
    /\ At(t, "r_make")
    /\ readers' = readers \cup
            {MakeRecordReader(fr[t].m, heap[manifest].schema, deleteFragments,
                              fr[t].hasVersionColumn)}
    /\ Return(t, Returned("Read", Nil, -1, FALSE))
    /\ UNCHANGED <<fs, heap, spaceVars, lock, faults, calls, published, okCalls, hist>>
    /\ UNCHANGED dsVars

\* the rows of a data file
FileRows(p) == IF p \in DOMAIN fs /\ fs[p].kind = "data" THEN fs[p].rows ELSE <<>>

\* the rows of the scalar files of m, each joined with the row at the same place
\* of the vector file at the same place of the fragment with the same index
MergedRows(m) ==
    {FileRows(m.scalarFragments[i].files[j])[k] @@
     FileRows(m.vectorFragments[i].files[j])[k] :
        <<i, j, k>> \in
            {x \in (DOMAIN m.scalarFragments) \X (1..8) \X (1..8) :
                /\ x[1] \in DOMAIN m.vectorFragments
                /\ x[2] \in DOMAIN m.scalarFragments[x[1]].files
                /\ x[2] \in DOMAIN m.vectorFragments[x[1]].files
                /\ x[3] \in DOMAIN FileRows(m.scalarFragments[x[1]].files[x[2]])
                /\ x[3] \in DOMAIN FileRows(m.vectorFragments[x[1]].files[x[2]])}}

\* the tombstone rows of the files of the delete fragments
TombstoneRows(delFragments) ==
    UNION {Range(FileRows(delFragments[i].files[j])) :
            <<i, j>> \in {x \in (DOMAIN delFragments) \X (1..8) :
                            x[2] \in DOMAIN delFragments[x[1]].files}}

\* the delete set: primary key -> the versions at which the key was deleted
DeleteSet(delFragments) ==
    LET rows == TombstoneRows(delFragments)
    IN  [k \in {r.pk : r \in rows} |-> {r.ver : r \in {q \in rows : q.pk = k}}]

\* the apply-on-read rule: the key has no tombstone, or every recorded delete
\* version of the key is less than the row's version
Live(row, ds) == row.pk \in DOMAIN ds => \A v \in ds[row.pk] : v < row.ver

\* the rows the reader emits
ReaderRows(r) ==
    {row \in MergedRows(heap[r.m]) : Live(row, DeleteSet(r.deleteFragments))}

(***************************************************************************)
(* Inputs                                                                  *)
(***************************************************************************)
Row(pk, ver) == [pk |-> pk, ver |-> ver, vec |-> pk, tag |-> pk]

\* the three batches of scenario 1's rows, the second one empty
DataStream == << <<Row(1, 10)>>, <<>>, <<Row(2, 10), Row(3, 10)>> >>

\* the same rows in two batches, the larger one first
LateStream == << <<Row(2, 10), Row(3, 10)>>, <<Row(1, 10)>> >>

\* the streams and max_record_per_file of the Write calls: an empty stream, a
\* stream of one empty batch, and the data with a file per batch and with one file
WriteInputs ==
    { [stream |-> <<>>, maxRecordPerFile |-> 1],
      [stream |-> << <<>> >>, maxRecordPerFile |-> 1],
      [stream |-> DataStream, maxRecordPerFile |-> 1],
      [stream |-> LateStream, maxRecordPerFile |-> 4] }

Tombstone(pk, ver) == [pk |-> pk, ver |-> ver]

\* record batch streams for Delete
DeleteStreams ==
    { << <<>> >>,
      << <<Tombstone(2, 11)>>, <<Tombstone(1, 9)>> >> }

\* the name, content and replace flag of the WriteBlob calls
BlobInputs ==
    { [name |-> "greet", content |-> <<104, 105>>, replace |-> FALSE],
      [name |-> "greet", content |-> <<104>>, replace |-> TRUE],
      [name |-> "other", content |-> <<104, 105>>, replace |-> FALSE] }

OpenVersions == {-1, 0, 1, 2}

(***************************************************************************)
(* Specification                                                           *)
(***************************************************************************)
Next ==
    \/ \E sch \in {NilSchema, UserSchema}, v \in OpenVersions, fault \in OpenFaults :
            Open(sch, v, fault)
    \/ \E t \in Threads, in \in WriteInputs :
            Write_Start(t, UserSchema, in.stream, in.maxRecordPerFile)
    \/ \E t \in Threads : Write_Start(t, OtherSchema, DataStream, 1)
    \/ \E t \in Threads : Write_Batch(t)
    \/ \E t \in Threads : Write_Close(t)
    \/ \E t \in Threads : Write_Lock(t)
    \/ \E t \in Threads : Write_Save(t)
    \/ \E t \in Threads : Write_Commit(t)
    \/ \E t \in Threads, st \in DeleteStreams : Delete_Start(t, st)
    \/ \E t \in Threads : Delete_Batch(t)
    \/ \E t \in Threads : Delete_Close(t)
    \/ \E t \in Threads : Delete_Lock(t)
    \/ \E t \in Threads : Delete_Save(t)
    \/ \E t \in Threads : Delete_Commit(t)
    \/ \E t \in Threads, in \in BlobInputs :
            WriteBlob_Start(t, in.content, in.name, in.replace)
    \/ \E t \in Threads : WriteBlob_File(t)
    \/ \E t \in Threads : WriteBlob_Lock(t)
    \/ \E t \in Threads : WriteBlob_Save(t)
    \/ \E t \in Threads : WriteBlob_Commit(t)
    \/ \E t \in Threads : Read_Start(t)
    \/ \E t \in Threads : Read_Manifest(t)
    \/ \E t \in Threads : Read_Make(t)

Spec == Init /\ [][Next]_vars

(***************************************************************************)
(* Space.GetCurrentVersion (space.go 471-473)                              *)
(***************************************************************************)
\* s.manifest.Version(), read without the lock
GetCurrentVersion(h, m) == h[m].version

(***************************************************************************)
(* DeleteSet (cpp/src/storage/deleteset.cpp)                               *)
(***************************************************************************)
\* batches DeleteSet::Add is given in one behaviour
MaxBatches == 2

\* std::map::emplace(value, versions) for a key the map does not hold
Emplace(delete_set_, value, versions) ==
    [k \in (DOMAIN delete_set_) \cup {value} |->
        IF k = value THEN versions ELSE delete_set_[k]]

\* delete_set_.at(value).push_back(version)
PushBack(delete_set_, value, version) ==
    [delete_set_ EXCEPT ![value] = Append(@, version)]

\* DeleteSetVisitor::Visit(const arrow::Int64Array&), rows i..length
RECURSIVE Visit_Int64Array(_, _, _, _)
Visit_Int64Array(delete_set_, array, version_col_, i) ==
    IF i > Len(array) THEN delete_set_
    ELSE LET value == array[i]
         IN  Visit_Int64Array(
                IF value \in DOMAIN delete_set_
                THEN PushBack(delete_set_, value, version_col_[i])
                ELSE Emplace(delete_set_, value, <<version_col_[i]>>),
                array, version_col_, i + 1)

\* DeleteSetVisitor::Visit(const arrow::StringArray&), rows i..length
RECURSIVE Visit_StringArray(_, _, _, _)
Visit_StringArray(delete_set_, array, version_col_, i) ==
    IF i > Len(array) THEN delete_set_
    ELSE LET value == array[i]
         IN  Visit_StringArray(
                IF value \in DOMAIN delete_set_
                THEN PushBack(delete_set_, value, version_col_[i])
                ELSE Emplace(delete_set_, value, <<>>),
                array, version_col_, i + 1)

\* pk_col->Accept(&visitor): the visitor of the array's type
Accept(delete_set_, batch) ==
    IF batch.type = "int64"
    THEN Visit_Int64Array(delete_set_, batch.pk, batch.ver, 1)
    ELSE Visit_StringArray(delete_set_, batch.pk, batch.ver, 1)

\* DeleteSet::GetVersionByPk
GetVersionByPk(data, pk) == IF pk \in DOMAIN data THEN data[pk] ELSE <<>>

\* the primary keys of the tombstone batches, as values of pk_type (a variant of
\* an int64 and a string): the alternative and the value
PkValues(type) ==
    IF type = "int64" THEN {<<"int64", 1>>, <<"int64", 2>>}
    ELSE {<<"string", "a">>, <<"string", "b">>}

TombstoneVersions == {10, 11}

\* the columns of one or two values of S
Columns(S) == {<<x>> : x \in S} \cup {<<x, y>> : x \in S, y \in S}

\* a tombstone batch of one or two rows: the primary key column and the version
\* column
TombstoneBatches(type) ==
    {[type |-> type, pk |-> pk, ver |-> ver] :
        pk \in Columns(PkValues(type)), ver \in Columns(TombstoneVersions)}

\* DeleteSet::Add(batch); the batches of one Space have one primary key type
Add(batch) ==
    /\ Len(added) < MaxBatches
    /\ Len(batch.pk) = Len(batch.ver)
    /\ added # <<>> => added[1].type = batch.type
    /\ data_' = Accept(data_, batch)
    /\ added' = Append(added, batch)
    /\ UNCHANGED <<fs, heap, spaceVars, lock, pc, fr, ret, readers, calls, published,
                   okCalls, hist, faults>>

NextDeleteSet ==
    \E type \in {"int64", "string"} : \E batch \in TombstoneBatches(type) : Add(batch)

SpecDeleteSet == Init /\ [][NextDeleteSet]_vars

(***************************************************************************)
(* What the statements below speak of                                      *)
(***************************************************************************)
\* the committed manifest files and what each holds
Committed(f) == [p \in CommittedFiles(f) |-> f[p]]

\* the versions of the committed manifest files
CommittedVersions(f) == {ParseVersionFromFileName(Base(p)) : p \in CommittedFiles(f)}

\* the committed manifest file of a version
CommittedPath(version) == GetManifestFilePath(GetManifestDir(SpacePath), version)

\* the step publishes nothing: the manifest of the Space, its value,
\* nextManifestVersion and the committed manifest files are as before
NothingPublished ==
    /\ manifest' = manifest
    /\ heap'[manifest'] = heap[manifest]
    /\ nextManifestVersion' = nextManifestVersion
    /\ Committed(fs') = Committed(fs)

\* the step writes nothing at all
NothingWritten ==
    /\ fs' = fs
    /\ heap' = heap
    /\ manifest' = manifest
    /\ nextManifestVersion' = nextManifestVersion

LockPcs == {"w_lock", "d_lock", "b_lock"}

SavePcs == {"w_save", "d_save", "b_save"}

CommitPcs == {"w_commit", "d_commit", "b_commit"}

\* the data files no fragment of the Space's manifest lists
Orphans ==
    {p \in DOMAIN fs : fs[p].kind = "data"} \
    UNION {Range(heap[manifest].scalarFragments[i].files) \cup
           Range(heap[manifest].vectorFragments[i].files) :
                i \in DOMAIN heap[manifest].scalarFragments}

(***************************************************************************)
(* C1                                                                      *)
(***************************************************************************)
\* C1: for any interleaving of Write, Delete and WriteBlob no two successful
\* publications use the same manifest version: the versions published grow
\* strictly in the order of publication, and a call that holds the lock
\* publishes at the nextManifestVersion it read under the lock, which is still
\* the Space's nextManifestVersion when it saves.
C1_DistinctVersions ==
    /\ \A i, j \in DOMAIN published :
            i < j => published[i].version < published[j].version
    /\ \A t \in Threads :
            pc[t] \in SavePcs =>
                /\ lock = t
                /\ fr[t].nextVersion = nextManifestVersion
                /\ heap[fr[t].copied].version = fr[t].nextVersion

\* a call has published and holds the lock while the other call waits for it
C1_WriterWaitsForPublisher ==
    \E t, u \in Threads : pc[t] \in CommitPcs /\ pc[u] \in LockPcs

(***************************************************************************)
(* C2                                                                      *)
(***************************************************************************)
\* C2: Write fails atomically. Every step of a Write but its successful save
\* and its swap leaves the manifest, nextManifestVersion and the committed
\* manifest files as they are, and only such a step returns an error; the
\* successful save commits exactly one manifest file, at nextManifestVersion;
\* the swap returns nil and makes current a manifest that is the previous one
\* with that version, one more scalar fragment and one more vector fragment,
\* which list the files the call created.
C2_WriteAtomic ==
    [][\A t \in Threads :
        /\ (\/ \E in \in WriteInputs :
                    Write_Start(t, UserSchema, in.stream, in.maxRecordPerFile)
            \/ Write_Start(t, OtherSchema, DataStream, 1)
            \/ Write_Batch(t)
            \/ Write_Close(t)
            \/ Write_Lock(t)
            \/ (Write_Save(t) /\ faults' # faults))
           => /\ NothingPublished
              /\ (pc'[t] = "idle" /\ (pc[t] # "idle" \/ ret' # ret)) => ret'.err # Nil
        /\ (Write_Save(t) /\ faults' = faults)
           => /\ pc'[t] = "w_commit"
              /\ manifest' = manifest
              /\ nextManifestVersion' = nextManifestVersion
              /\ CommittedFiles(fs') =
                    CommittedFiles(fs) \cup {CommittedPath(nextManifestVersion)}
              /\ CommittedPath(nextManifestVersion) \notin CommittedFiles(fs)
              /\ \A p \in CommittedFiles(fs) : fs'[p] = fs[p]
              /\ fs'[CommittedPath(nextManifestVersion)] =
                    ManifestEntry(heap[fr[t].copied])
        /\ Write_Commit(t)
           => LET old == heap[manifest]
                  new == heap'[manifest']
                  ns == Len(old.scalarFragments) + 1
                  nv == Len(old.vectorFragments) + 1
              IN  /\ ret'.err = Nil
                  /\ nextManifestVersion' = nextManifestVersion + 1
                  /\ new.version = nextManifestVersion
                  /\ fs[CommittedPath(new.version)] = ManifestEntry(new)
                  /\ new.schema = old.schema
                  /\ new.deleteFragments = old.deleteFragments
                  /\ new.blobs = old.blobs
                  /\ Len(new.scalarFragments) = ns
                  /\ Len(new.vectorFragments) = nv
                  /\ SubSeq(new.scalarFragments, 1, ns - 1) = old.scalarFragments
                  /\ SubSeq(new.vectorFragments, 1, nv - 1) = old.vectorFragments
                  /\ Range(new.scalarFragments[ns].files) \cup
                     Range(new.vectorFragments[nv].files) = Range(fr[t].created)
                  /\ \A p \in Range(new.scalarFragments[ns].files) :
                        p \in DOMAIN fs /\ SubSeq(p, 1, Len(p) - 1) = GetScalarDataDir(SpacePath)
                  /\ \A p \in Range(new.vectorFragments[nv].files) :
                        p \in DOMAIN fs /\ SubSeq(p, 1, Len(p) - 1) = GetVectorDataDir(SpacePath)
      ]_vars

\* a Write has failed after it created data files: the files are orphans and
\* the Space is still at the version Open gave it
C2_FailedWriteLeavesOrphans ==
    /\ opened
    /\ ret.op = "Write" /\ ret.err = ErrIO /\ ret.nonEmpty
    /\ Orphans # {}
    /\ heap[manifest].version = hist.openedVersion
    /\ \A t \in Threads : pc[t] = "idle"

(***************************************************************************)
(* C3                                                                      *)
(***************************************************************************)
\* C3: a Write whose stream yields no non-empty batch is a no-op: none of its
\* steps opens a file or writes a manifest, the manifest version and
\* nextManifestVersion stay as they are, and the call returns nil.
C3_EmptyWriteIsNoOp ==
    [][\A t \in Threads :
        (/\ fr[t].op = "Write"
         /\ ~fr[t].nonEmpty
         /\ \A i \in DOMAIN fr[t].stream : Len(fr[t].stream[i]) = 0
         /\ faults' = faults
         /\ \/ Write_Batch(t)
            \/ Write_Close(t)
            \/ Write_Lock(t)
            \/ Write_Save(t)
            \/ Write_Commit(t))
        => /\ fs' = fs
           /\ heap'[manifest'].version = heap[manifest].version
           /\ nextManifestVersion' = nextManifestVersion
           /\ pc'[t] = "idle" => ret'.err = Nil
      ]_vars

(***************************************************************************)
(* C4                                                                      *)
(***************************************************************************)
\* C4: the manifest version of the Space is the version it was opened at plus
\* the number of calls that have published since (for n successful Writes and
\* nothing else: the initial version plus n), and nextManifestVersion is one
\* more.
C4_VersionCountsPublications ==
    opened =>
        /\ heap[manifest].version =
                hist.openedVersion + okCalls["Write"] + okCalls["Delete"]
                    + okCalls["WriteBlob"] - hist.noops
        /\ nextManifestVersion = heap[manifest].version + 1

\* two Writes have succeeded
C4_TwoWrites ==
    /\ opened
    /\ okCalls["Write"] = 2
    /\ heap[manifest].version = hist.openedVersion + 2

(***************************************************************************)
(* C5                                                                      *)
(***************************************************************************)
\* C5: when safeSaveManifest fails inside Write, Delete or WriteBlob the call
\* returns the error, the manifest of the Space and nextManifestVersion are as
\* before, no committed manifest file of that version appears, and the lock is
\* released; a save of a version whose save failed before commits that version.
C5_SaveFailure ==
    [][\A t \in Threads :
        /\ ((Write_Save(t) \/ Delete_Save(t) \/ WriteBlob_Save(t)) /\ faults' # faults)
           => /\ pc'[t] = "idle"
              /\ ret'.err # Nil
              /\ NothingPublished
              /\ nextManifestVersion' = fr[t].nextVersion
              /\ fr[t].nextVersion \notin CommittedVersions(fs')
              /\ lock = t
              /\ lock' = NoThread
        /\ (/\ Write_Save(t) \/ Delete_Save(t) \/ WriteBlob_Save(t)
            /\ faults' = faults
            /\ fr[t].nextVersion \in hist.failedSaves)
           => /\ pc'[t] \in CommitPcs
              /\ fr[t].nextVersion \in CommittedVersions(fs')
              /\ fr[t].nextVersion \notin CommittedVersions(fs)
      ]_vars

\* a version whose save failed has been published by a later call
C5_RetryPublishesSameVersion ==
    \E v \in hist.failedSaves :
        /\ \E i \in DOMAIN published : published[i].version = v
        /\ heap[manifest].version = v

(***************************************************************************)
(* C6                                                                      *)
(***************************************************************************)
\* C6: every row a reader emits is live with respect to all the tombstones of
\* the delete fragments of the manifest the reader uses: a row with primary
\* key K and version V is emitted only if every tombstone of K published up to
\* that manifest has a version less than V.
C6_ReadAppliesDeletes ==
    \A r \in readers :
        \A row \in ReaderRows(r) :
            \A ts \in hist.tombstones :
                (ts.at <= r.at.version /\ ts.pk = row.pk) => ts.ver < row.ver

(***************************************************************************)
(* C7                                                                      *)
(***************************************************************************)
\* C7: a reader is built from one manifest value that was the manifest of the
\* Space during the Read: the committed manifest of its version. No later
\* Write, Delete or WriteBlob changes that manifest object, and so none
\* changes the fragment lists the reader sees.
C7_ReaderSnapshot ==
    \A r \in readers :
        /\ heap[r.m] = r.at
        /\ r.schema = r.at.schema
        /\ r.at.version <= heap[manifest].version
        /\ \E i \in DOMAIN published : published[i].version = r.at.version
        /\ fs[CommittedPath(r.at.version)] = ManifestEntry(r.at)

\* a reader made at an earlier version than the one the Space is at now
C7_ReaderBehindCurrent ==
    \E r \in readers :
        /\ r.at.version < heap[manifest].version
        /\ heap[manifest].scalarFragments # r.at.scalarFragments

(***************************************************************************)
(* C8                                                                      *)
(***************************************************************************)
\* C8: validation errors are raised at call entry and cause no write. A Write
\* with a stream schema other than the Space's returns ErrSchemaNotMatch, a
\* WriteBlob with replace=false of a name the manifest has returns
\* ErrBlobAlreadyExist; the step that returns either error is the call's first,
\* and it changes no file, no manifest and not nextManifestVersion.
C8_ValidationAtEntry ==
    [][\A t \in Threads :
        /\ Write_Start(t, OtherSchema, DataStream, 1)
           => ret' = Returned("Write", ErrSchemaNotMatch, -1, FALSE)
        /\ \A in \in BlobInputs :
            (/\ WriteBlob_Start(t, in.content, in.name, in.replace)
             /\ ~in.replace
             /\ \E i \in DOMAIN heap[manifest].blobs :
                    heap[manifest].blobs[i].name = in.name)
            => ret' = Returned("WriteBlob", ErrBlobAlreadyExist, -1, FALSE)
        /\ (ret'.err \in {ErrSchemaNotMatch, ErrBlobAlreadyExist}
                /\ (ret' # ret \/ (calls' # calls /\ pc' = pc)))
           => /\ pc' = pc
              /\ fr' = fr
              /\ calls' = calls + 1
              /\ NothingWritten
      ]_vars

\* a WriteBlob with replace=false has been refused for a name the manifest has
C8_BlobRefused ==
    /\ ret = Returned("WriteBlob", ErrBlobAlreadyExist, -1, FALSE)
    /\ HasBlob(heap[manifest], "greet")
    /\ okCalls["WriteBlob"] = 1

C10_OpenPolicy ==
    [][\A sch \in {NilSchema, UserSchema}, v \in OpenVersions :
        Open(sch, v, "none") =>
            LET committed == CommittedVersions(fs)
                selected(w) ==
                    /\ ret'.err = Nil
                    /\ heap'[manifest'].version = w
                    /\ heap'[manifest'] = fs[CommittedPath(w)].m
                    /\ nextManifestVersion' = w + 1
            IN  IF committed = {}
                THEN IF sch = NilSchema
                     THEN ret'.err = ErrSchemaIsNil /\ CommittedVersions(fs') = {}
                     ELSE /\ ret'.err = Nil
                          /\ heap'[manifest'].version = 0
                          /\ heap'[manifest'].schema = sch
                          /\ CommittedVersions(fs') = {0}
                          /\ nextManifestVersion' = 1
                ELSE IF v # -1
                THEN IF v \in committed
                     THEN selected(v)
                     ELSE ret'.err = ErrManifestNotFound
                ELSE selected(CHOOSE w \in committed : \A x \in committed : x <= w)
      ]_vars

(***************************************************************************)
(* C11                                                                     *)
(***************************************************************************)
\* the manifests in use: the one of the Space, the clones of the calls that
\* hold the lock, the ones the readers hold, and the committed files
Manifests ==
    {heap[p] : p \in ({manifest} \cup {r.m : r \in readers}
                        \cup {fr[t].copied : t \in {u \in Threads : lock = u}})
                      \cap DOMAIN heap}
    \cup {fs[p].m : p \in CommittedFiles(fs)}

\* one of the three fragment lists of a manifest
Fragments(m, kind) ==
    CASE kind = "scalar" -> m.scalarFragments
      [] kind = "vector" -> m.vectorFragments
      [] OTHER -> m.deleteFragments

FragmentKinds == {"scalar", "vector", "delete"}

\* C11: in every manifest every fragment has an id that is at most the
\* manifest's version; the id is the version at which the fragment was first
\* published (the committed manifest of that version has the fragment at the
\* same place, the committed manifest of the version before does not reach
\* that place); and for every version V the scalar list has a fragment with id
\* V if and only if the vector list has exactly one fragment with id V.
C11_FragmentIds ==
    \A m \in Manifests :
        /\ \A kind \in FragmentKinds :
            \A i \in DOMAIN Fragments(m, kind) :
                LET f == Fragments(m, kind)[i]
                IN  /\ f.id <= m.version
                    /\ f.id >= 1
                    /\ (CommittedPath(f.id) \in DOMAIN fs \/ f.id < m.version) =>
                        /\ CommittedPath(f.id) \in DOMAIN fs
                        /\ i \in DOMAIN Fragments(fs[CommittedPath(f.id)].m, kind)
                        /\ Fragments(fs[CommittedPath(f.id)].m, kind)[i] = f
                    /\ CommittedPath(f.id - 1) \in DOMAIN fs =>
                        i > Len(Fragments(fs[CommittedPath(f.id - 1)].m, kind))
        /\ \A V \in Versions :
            (\E i \in DOMAIN m.scalarFragments : m.scalarFragments[i].id = V)
            <=> Cardinality({i \in DOMAIN m.vectorFragments :
                                m.vectorFragments[i].id = V}) = 1

\* the Space is at version 2 after a Write and a Delete: its scalar and vector
\* fragments have id 1 and its delete fragment has id 2
C11_WriteThenDelete ==
    /\ opened
    /\ heap[manifest].version = 2
    /\ Len(heap[manifest].scalarFragments) = 1
    /\ heap[manifest].scalarFragments[1].id = 1
    /\ heap[manifest].vectorFragments[1].id = 1
    /\ Len(heap[manifest].deleteFragments) = 1
    /\ heap[manifest].deleteFragments[1].id = 2

(***************************************************************************)
(* C12                                                                     *)
(***************************************************************************)
\* C12: when a Write publishes, no data file of its two fragments holds more
\* than max_record_per_file rows, and with max_record_per_file = 1 every file
\* holds one row, so that a fragment has as many files as the stream had rows.
C12_MaxRecordPerFile ==
    [][\A t \in Threads :
        Write_Commit(t) =>
            LET new == heap'[manifest']
                files == Range(new.scalarFragments[Len(new.scalarFragments)].files)
                         \cup Range(new.vectorFragments[Len(new.vectorFragments)].files)
            IN  /\ \A p \in files : Len(FileRows(p)) <= fr[t].maxRecordPerFile
                /\ fr[t].maxRecordPerFile = 1 => \A p \in files : Len(FileRows(p)) = 1
      ]_vars

(***************************************************************************)
(* C13                                                                     *)
(***************************************************************************)
\* the .tmp files a publication that stopped before its rename has left
TmpFiles(f) ==
    {p \in List(f, GetManifestDir(SpacePath)) : ParseVersionFromFileName(Base(p)) = -1}

\* C13: recovery on open. When a publication has left manifest/<V>.mf.tmp
\* behind, an Open for the latest version ignores the .tmp file: it selects the
\* largest committed version, which is less than V, with the manifest of that
\* committed file, and sets nextManifestVersion to that version plus 1, so
\* that the next publication is the one of version V.
C13_RecoveryOnOpen ==
    [][\A sch \in {NilSchema, UserSchema} :
        (/\ Open(sch, -1, "none")
         /\ CommittedVersions(fs) # {}
         /\ TmpFiles(fs) # {})
        => LET committed == CommittedVersions(fs)
               latest == CHOOSE w \in committed : \A x \in committed : x <= w
           IN  /\ ret'.err = Nil
               /\ heap'[manifest'] = fs[CommittedPath(latest)].m
               /\ heap'[manifest'].version = latest
               /\ nextManifestVersion' = latest + 1
               /\ \A p \in TmpFiles(fs) :
                    p = GetManifestTmpFilePath(GetManifestDir(SpacePath), latest + 1)
      ]_vars

(***************************************************************************)
(* C14                                                                     *)
(***************************************************************************)
\* the steps of a call that read s.manifest next, without holding s.lock
ReadsManifestNext(t) == pc[t] \in {"r_manifest", "r_make"} /\ lock # t

\* the step of a call that assigns s.manifest next, holding s.lock
SwapsManifestNext(t) == pc[t] \in CommitPcs /\ lock = t

\* C14: every access to the manifest pointer is synchronized with the swap:
\* no state is reachable in which a thread is about to read s.manifest without
\* the lock while another thread, holding the lock, is about to replace it.
C14_NoUnsynchronizedRead ==
    \A t, u \in Threads : ~(ReadsManifestNext(t) /\ SwapsManifestNext(u))

(***************************************************************************)
(* C15                                                                     *)
(***************************************************************************)
\* the positions of Write between two batches and after the last one
BatchBoundaryPcs == {"w_loop", "w_lock", "w_save", "w_commit"}

\* the scalar and vector fragments of m with the same id have equally many
\* files and the files at the same position hold equally many rows
PairedFragments(m) ==
    \A i \in DOMAIN m.scalarFragments, j \in DOMAIN m.vectorFragments :
        m.scalarFragments[i].id = m.vectorFragments[j].id =>
            LET sf == m.scalarFragments[i].files
                vf == m.vectorFragments[j].files
            IN  /\ Len(sf) = Len(vf)
                /\ \A k \in DOMAIN sf :
                      /\ sf[k] \in DOMAIN fs /\ vf[k] \in DOMAIN fs
                      /\ Len(FileRows(sf[k])) = Len(FileRows(vf[k]))

\* C15: data files are opened in pairs and closed in pairs: between the batches
\* of a Write the scalar writer is nil exactly when the vector writer is nil and
\* the two fragments list equally many files; in every published manifest the
\* scalar and vector fragments with the same id have equally many files and the
\* i-th scalar file and the i-th vector file hold equally many rows.
C15_PairedFiles ==
    /\ \A t \in Threads :
          (fr[t].op = "Write" /\ pc[t] \in BatchBoundaryPcs) =>
              /\ (fr[t].scalarWriter = NilWriter) <=> (fr[t].vectorWriter = NilWriter)
              /\ fr[t].scalarWriter.count = fr[t].vectorWriter.count
              /\ Len(fr[t].scalarFragment.files) = Len(fr[t].vectorFragment.files)
    /\ \A p \in CommittedFiles(fs) : PairedFragments(fs[p].m)
    /\ manifest \in DOMAIN heap => PairedFragments(heap[manifest])

\* a Write of three rows in two batches under MaxRecordPerFile = 1 is published:
\* its fragments list two scalar and two vector files
C15_TwoPairsPublished ==
    \E p \in CommittedFiles(fs) :
        \E i \in DOMAIN fs[p].m.scalarFragments :
            /\ Len(fs[p].m.scalarFragments[i].files) = 2
            /\ Len(fs[p].m.vectorFragments[i].files) = 2

(***************************************************************************)
(* C16                                                                     *)
(***************************************************************************)
\* the scalar data files: the data files whose rows carry the offset column
ScalarFiles ==
    {p \in DOMAIN fs : /\ fs[p].kind = "data"
                       /\ fs[p].rows # <<>>
                       /\ \A k \in DOMAIN fs[p].rows : kOffsetFieldName \in DOMAIN fs[p].rows[k]}

\* the offset column of the scalar file p, row by row
Offsets(p) == [k \in DOMAIN fs[p].rows |-> fs[p].rows[k][kOffsetFieldName]]

\* C16: within every scalar data file the offset column never decreases from a
\* row to the next, also when the file received several batches, and it starts
\* again at 0 in every file.
C16_OffsetsMonotone ==
    \A p \in ScalarFiles :
        /\ Offsets(p)[1] = 0
        /\ \A k \in 1..(Len(Offsets(p)) - 1) : Offsets(p)[k] <= Offsets(p)[k + 1]

(***************************************************************************)
(* C17                                                                     *)
(***************************************************************************)
\* C17: a Delete opens at most one delete file; when it publishes, the new
\* manifest has the next version, its delete fragments are the previous ones
\* plus one fragment with that version as id holding exactly the file of the
\* call, and the scalar fragments, the vector fragments and the blobs are the
\* previous ones; a Delete whose stream has no non-empty batch creates no file
\* and leaves the manifest and the version as they were.
C17_DeletePublishesItsFile ==
    [][\A t \in Threads :
        /\ fr[t].op = "Delete" => Len(fr[t].created) <= 1
        /\ Delete_Commit(t) =>
              LET old == heap[manifest]
                  new == heap'[manifest']
              IN  /\ new.version = nextManifestVersion
                  /\ CommittedPath(new.version) \in DOMAIN fs
                  /\ new.deleteFragments =
                        Append(old.deleteFragments,
                               AddFile(NewFragment(new.version), fr[t].writer.path))
                  /\ new.scalarFragments = old.scalarFragments
                  /\ new.vectorFragments = old.vectorFragments
                  /\ new.blobs = old.blobs
        /\ (Delete_Close(t) /\ ~fr[t].nonEmpty) =>
              /\ fr[t].created = <<>>
              /\ UNCHANGED <<fs, manifest, nextManifestVersion>>
              /\ ret'.err = Nil]_vars

(***************************************************************************)
(* C18                                                                     *)
(***************************************************************************)
\* the versions of the rows of the batches whose primary key is pk, in stream order
RECURSIVE VersionsOf(_, _)
VersionsOf(batches, pk) ==
    IF batches = <<>> THEN <<>>
    ELSE LET b == Head(batches)
             here == SelectSeq([i \in DOMAIN b.pk |-> [pk |-> b.pk[i], ver |-> b.ver[i]]],
                               LAMBDA r : r.pk = pk)
         IN  [i \in DOMAIN here |-> here[i].ver] \o VersionsOf(Tail(batches), pk)

\* C18: after the delete set has been built from tombstone batches, the list
\* stored for every primary key, int64 or string, holds in stream order the
\* versions of all tombstone rows with that key, the first one included, and a
\* key without a tombstone row has the empty list.
C18_DeleteSetHoldsEveryRow ==
    added # <<>> =>
        \A pk \in PkValues(added[1].type) :
            GetVersionByPk(data_, pk) = VersionsOf(added, pk)

(***************************************************************************)
(* C19                                                                     *)
(***************************************************************************)
IsPrefix(s, t) == Len(s) <= Len(t) /\ \A i \in DOMAIN s : s[i] = t[i]

\* b has every fragment of a, in a's order and before its own, and every blob
\* name of a; the one entry a publication can replace is the entry of the name
\* it writes
Extends(b, a) ==
    /\ IsPrefix(a.scalarFragments, b.scalarFragments)
    /\ IsPrefix(a.vectorFragments, b.vectorFragments)
    /\ IsPrefix(a.deleteFragments, b.deleteFragments)
    /\ \A i \in DOMAIN a.blobs : HasBlob(b, a.blobs[i].name)
    /\ Cardinality({i \in DOMAIN a.blobs : a.blobs[i] \notin Range(b.blobs)}) <= 1
    /\ (\E i \in DOMAIN a.blobs : a.blobs[i] \notin Range(b.blobs)) =>
            /\ b.scalarFragments = a.scalarFragments
            /\ b.deleteFragments = a.deleteFragments
            /\ Len(b.blobs) = Len(a.blobs)

C21_OpenRoundTrip ==
    [][\A sch \in {NilSchema, UserSchema}, v \in CommittedVersions(fs) :
          Open(sch, v, "none") =>
              /\ OpenManifestFilePath(SpacePath, v) = CommittedPath(v)
              /\ ret'.err = Nil
              /\ heap'[manifest'] = fs[CommittedPath(v)].m
              /\ heap'[manifest'].version = v]_vars

(***************************************************************************)
(* C22                                                                     *)
(***************************************************************************)
\* C22: in every state of an open Space in which nobody holds the write lock,
\* after Open and after successful and failed Write, Delete and WriteBlob
\* calls, nextManifestVersion is the version of the manifest of the Space plus
\* one; and no step makes GetCurrentVersion smaller.
C22_NextVersionFollows ==
    [][/\ (opened' /\ lock' = NoThread) =>
              nextManifestVersion' = GetCurrentVersion(heap', manifest') + 1
       /\ (opened /\ opened') =>
              GetCurrentVersion(heap', manifest') >= GetCurrentVersion(heap, manifest)]_vars

\* a call whose save failed has returned and another call has published since:
\* the lock is free, the version has grown and the failed version was reused
C22_AfterFailureAndSuccess ==
    /\ opened
    /\ lock = NoThread
    /\ \A t \in Threads : pc[t] = "idle"
    /\ hist.failedSaves # {}
    /\ ret.err = Nil
    /\ GetCurrentVersion(heap, manifest) = hist.openedVersion + 1
    /\ nextManifestVersion = hist.openedVersion + 2

====
